---- MODULE Spec2Model ----
(***************************************************************************)
(* Session-based PDF question answering (api/nlp/chatbot/pdf_chat.py).     *)
(*                                                                         *)
(* The state is the process-lifetime map active_sessions together with the *)
(* external resources the two handlers act on: the tables of the vector    *)
(* store, the temp files under UPLOAD_DIR and the objects put to S3.       *)
(* cleanup_session has no await and runs as one step.  pdf_chat has one    *)
(* suspension point, `await file.read()` inside _process_file, so a        *)
(* request that carries a file is two steps (pdf_chat up to the await,     *)
(* pdf_chat_resume after it); a request without a file is one step.        *)
(* Every call into an external object (QaChain, AwsUtils, the filesystem)  *)
(* either returns or raises.                                               *)
(***************************************************************************)
EXTENDS Integers, Sequences, FiniteSets, TLC

\* Number of requests (pdf_chat or cleanup) the clients send in one run.
MaxRequests == 3

\* Python's None, for the Optional[...] form fields and response fields.
None == "None"

UPLOAD_DIR == "/tmp/pdf_uploads"

MEDICAL_PDF_DOMAIN == "medical_pdfs"

\* Values of the form fields the clients send.  The first user opens
\* sessions; the second is one who was handed a session id and sends only to
\* sessions that exist (follow-up questions and replacement documents).
FirstUser == "u1"

SecondUser == "u2"

Users == {FirstUser, SecondUser}

Queries == {None, "", "dose?"}

Filenames == {"a.pdf"}

\* A session id a client makes up itself; the server never generated it.
ClientSessionId == "my-session"

\* Names QaChain.create_table may return (the chain is external: the name
\* it derives from the file name is any of these, fresh or already used).
TableNames == {"t1", "t2"}

\* Dictionaries QaChain.get_answer may return.
QaResponses == {[answer |-> "an answer", message |-> "Success"], [message |-> "No relevant content"]}

VARIABLES
    active_sessions,   \* session id -> [user_id, temp_file_path, table_name, created_at]
    tables,            \* tables that exist in the vector store
    files,             \* temp files that exist under UPLOAD_DIR
    s3,                \* uploads made through AwsUtils.upload_file_to_s3
    uuids,             \* how many uuid4 values have been drawn
    clock,             \* requests received so far; datetime.now() reads it
    pending,           \* pdf_chat requests suspended at `await file.read()`
    last,              \* the request that completed last, with its response
    cleaned            \* session ids for which cleanup_session has succeeded

vars == <<active_sessions, tables, files, s3, uuids, clock, pending, last, cleaned>>

----------------------------------------------------------------------------
\* Pure helpers

\* Truth value of an Optional[str] in `if x` / `if not x`: None and "" are falsy.
Truthy(x) == x # None /\ x # ""

\* str(uuid.uuid4()): the n-th value drawn, distinct from every other.
Uuid4(n) == "uuid-" \o ToString(n)

\* os.path.join(UPLOAD_DIR, f"{transaction_id}_{file.filename}")
TempFilePath(transaction_id, filename) == UPLOAD_DIR \o "/" \o transaction_id \o "_" \o filename

\* f"{MEDICAL_PDF_DOMAIN}/{user_folder}", user_folder = user_id or "anonymous"
S3Domain(user_id) == MEDICAL_PDF_DOMAIN \o "/" \o (IF Truthy(user_id) THEN user_id ELSE "anonymous")

\* dict.get(key): the value, or None when the key is missing.
Get(d, key) == IF key \in DOMAIN d THEN d[key] ELSE None

\* The response body of a pdf_chat request that succeeded.
ChatpdfResponse(session_id, answer, message, is_new_session, table_name) ==
    [status |-> 200, detail |-> None, session_id |-> session_id, answer |-> answer,
     message |-> message, is_new_session |-> is_new_session, table_name |-> table_name]

\* raise HTTPException(status_code, detail) as it reaches the client.
HTTPException(status_code, detail) ==
    [status |-> status_code, detail |-> detail, session_id |-> None, answer |-> None,
     message |-> None, is_new_session |-> FALSE, table_name |-> None]

\* str(e) of an HTTPException: "<status_code>: <detail>".
StrHTTPException(e) == ToString(e.status) \o ": " \o e.detail

\* `except Exception as e: raise HTTPException(status_code=500, detail=str(e))`
\* where msg is str(e).
Caught(msg) == HTTPException(500, msg)

\* Mutant of CleanupMessage: the message is raised as a 404 instead of returned.
CleanupMessageRaised(message) == HTTPException(404, message)

\* The body of a cleanup_session response that is not an error.
CleanupMessage(message) ==
    [status |-> 200, detail |-> None, session_id |-> None, answer |-> None,
     message |-> message, is_new_session |-> FALSE, table_name |-> None]

\* No call of QaChain.get_answer was made.
NoQa == [called |-> FALSE, table_name |-> None, temp_file_path |-> None, query |-> None, ret |-> <<>>]

\* QaChain(temp_file_path, query, table_name=table_name).get_answer() returned ret.
QaCall(temp_file_path, query, table_name, ret) ==
    [called |-> TRUE, table_name |-> table_name, temp_file_path |-> temp_file_path, query |-> query, ret |-> ret]

\* The entry pdf_chat stores for a new session.
NewSession(user_id, temp_file_path, table_name, created_at) ==
    [user_id |-> user_id, temp_file_path |-> temp_file_path, table_name |-> table_name,
     created_at |-> created_at]

\* Mutant of StoreSession: one session per user, the user's older ones are evicted.
StoreSessionEvict(sessions, session_id, entry) ==
    [s \in {t \in DOMAIN sessions : sessions[t].user_id # entry.user_id} \cup {session_id} |->
        IF s = session_id THEN entry ELSE sessions[s]]

\* Mutant of StoreSession: the map is rebuilt around the new entry
\* (active_sessions = {session_id: entry}).
StoreSessionReset(sessions, session_id, entry) == [s \in {session_id} |-> entry]

\* active_sessions[session_id] = entry
StoreSession(sessions, session_id, entry) ==
    [s \in DOMAIN sessions \cup {session_id} |-> IF s = session_id THEN entry ELSE sessions[s]]

\* Mutant of UpdateSession: 'table_name' is left out of the update.
UpdateSessionPathOnly(sessions, session_id, temp_file_path, table_name) ==
    [sessions EXCEPT ![session_id] = [@ EXCEPT !.temp_file_path = temp_file_path]]

\* active_sessions[session_id].update({'temp_file_path': ..., 'table_name': ...})
UpdateSession(sessions, session_id, temp_file_path, table_name) ==
    [sessions EXCEPT ![session_id] = [@ EXCEPT !.temp_file_path = temp_file_path, !.table_name = table_name]]

\* Mutant of DelSession: active_sessions.clear()
DelSessionClear(sessions, session_id) == <<>>

\* Mutant of DelSession: the del is forgotten.
DelSessionKeep(sessions, session_id) == sessions

\* del active_sessions[session_id]
DelSession(sessions, session_id) == [s \in DOMAIN sessions \ {session_id} |-> sessions[s]]

\* qa_chain.cleanup_table(table_name), when it returns: the table is gone.
CleanupTable(tbls, table_name) == tbls \ {table_name}

\* os.remove(path), when it returns.
OsRemove(fs, path) == fs \ {path}

----------------------------------------------------------------------------
\* Requests

PdfChatRequest(user_id, query, session_id, file) ==
    [op |-> "pdf_chat", user_id |-> user_id, query |-> query, session_id |-> session_id, file |-> file]

CleanupRequest(session_id) ==
    [op |-> "cleanup", user_id |-> None, query |-> None, session_id |-> session_id, file |-> None]

\* Session ids a client may send: none, one of its own making, or one the
\* server has handed out (still active, or cleaned up since).
SessionIdsSent(user_id) ==
    IF user_id = FirstUser
    THEN {None, ClientSessionId} \cup DOMAIN active_sessions \cup cleaned
    ELSE DOMAIN active_sessions

Init ==
    /\ active_sessions = <<>>
    /\ tables = {}
    /\ files = {}
    /\ s3 = {}
    /\ uuids = 0
    /\ clock = 0
    /\ pending = {}
    /\ cleaned = {}
    /\ last = [n |-> 0, req |-> CleanupRequest(None), branch |-> "none", resp |-> CleanupMessage(None), qa |-> NoQa]

\* The request req ends with response resp (branch: the path it took).
Complete(req, branch, resp, qa) ==
    last' = [n |-> last.n + 1, req |-> req, branch |-> branch, resp |-> resp, qa |-> qa]

\* Mutant of AnswerPhase: `if query is None` in place of `if not query`.
AnswerPhaseIsNone(session_id, query, temp_file_path, table_name, is_new_session) ==
    IF query = None
    THEN {[resp |-> ChatpdfResponse(session_id, None,
                       "Document processed and indexed. Send a query to get answers.",
                       is_new_session, table_name),
           qa |-> NoQa]}
    ELSE {[resp |-> Caught("get_answer failed"), qa |-> NoQa]}
         \cup {[resp |-> ChatpdfResponse(session_id, Get(r, "answer"), Get(r, "message"),
                                         is_new_session, table_name),
                qa |-> QaCall(temp_file_path, query, table_name, r)] : r \in QaResponses}

\* Lines 181-202 of pdf_chat: the outcomes of the answer phase, each the
\* response and the call of the answer chain behind it.
AnswerPhase(session_id, query, temp_file_path, table_name, is_new_session) ==
    IF ~Truthy(query)
    THEN {[resp |-> ChatpdfResponse(session_id, None,
                       "Document processed and indexed. Send a query to get answers.",
                       is_new_session, table_name),
           qa |-> NoQa]}
    ELSE {[resp |-> Caught("get_answer failed"), qa |-> NoQa]}
         \cup {[resp |-> ChatpdfResponse(session_id, Get(r, "answer"), Get(r, "message"),
                                         is_new_session, table_name),
                qa |-> QaCall(temp_file_path, query, table_name, r)] : r \in QaResponses}

\* cleanup_session, POST /cleanup: one step, there is no await in it.
cleanup_session(session_id) ==
    /\ clock < MaxRequests
    /\ clock' = clock + 1
    /\ UNCHANGED <<s3, uuids, pending>>
    /\ IF session_id \in DOMAIN active_sessions
       THEN LET session == active_sessions[session_id] IN
            \/ \* QaChain(...) or cleanup_table raises
               /\ Complete(CleanupRequest(session_id), "cleanup", Caught("cleanup_table failed"), NoQa)
               /\ UNCHANGED <<active_sessions, tables, files, cleaned>>
            \/ \* the table is dropped, os.remove raises
               /\ session.temp_file_path \in files
               /\ tables' = CleanupTable(tables, session.table_name)
               /\ Complete(CleanupRequest(session_id), "cleanup", Caught("remove failed"), NoQa)
               /\ UNCHANGED <<active_sessions, files, cleaned>>
            \/ \* no step fails
               /\ tables' = CleanupTable(tables, session.table_name)
               /\ files' = IF session.temp_file_path \in files
                           THEN OsRemove(files, session.temp_file_path) ELSE files
               /\ active_sessions' = DelSession(active_sessions, session_id)
               /\ cleaned' = cleaned \cup {session_id}
               /\ Complete(CleanupRequest(session_id), "cleanup",
                           CleanupMessage("Session cleaned up successfully"), NoQa)
       ELSE /\ Complete(CleanupRequest(session_id), "not_found", CleanupMessage("Session not found"), NoQa)
            /\ UNCHANGED <<active_sessions, tables, files, cleaned>>

\* Mutant of SessionTableName: the wrong key is read.
SessionTableNameWrongKey(sessions, session_id) == sessions[session_id].temp_file_path

\* table_name = active_sessions[session_id]['table_name'] (line 130)
SessionTableName(sessions, session_id) == sessions[session_id].table_name

\* str(e) of the KeyError that active_sessions[key] raises for a missing key.
StrKeyError(key) == "'" \o key \o "'"

\* `except Exception as e` around the body of pdf_chat catches the handler's
\* own HTTPException e too (HTTPException is an Exception) and re-raises it
\* as a 500 whose detail is str(e).
CaughtHTTPException(e) == Caught(StrHTTPException(e))

\* A pdf_chat request suspended at `await file.read()`, with its locals.
Suspended(transaction_id, req, session_id, temp_file_path, branch, old_table_name) ==
    [transaction_id |-> transaction_id, req |-> req, session_id |-> session_id,
     temp_file_path |-> temp_file_path, branch |-> branch, old_table_name |-> old_table_name]

\* AwsUtils.upload_file_to_s3(transaction_id, domain_name, file_path, upload_file_name)
S3Upload(transaction_id, user_id, temp_file_path, filename) ==
    [transaction_id |-> transaction_id, domain_name |-> S3Domain(user_id),
     file_path |-> temp_file_path, upload_file_name |-> filename]

\* pdf_chat, POST /pdf_chat, from its first line to the response or, when the
\* request carries a file, to `await file.read()` in _process_file.
pdf_chat(user_id, query, session_id, file) ==
    LET req == PdfChatRequest(user_id, query, session_id, file)
        transaction_id == Uuid4(uuids + 1)
    IN
    /\ clock < MaxRequests
    /\ clock' = clock + 1
    /\ UNCHANGED <<s3, cleaned>>
    /\ IF file = None /\ ~Truthy(session_id)
       THEN \* lines 121-125
            /\ Complete(req, "bad_request",
                        CaughtHTTPException(HTTPException(400, "Either file or session_id must be provided")),
                        NoQa)
            /\ uuids' = uuids + 1
            /\ UNCHANGED <<active_sessions, tables, files, pending>>
       ELSE IF Truthy(session_id) /\ session_id \in DOMAIN active_sessions
       THEN IF file # None
            THEN \* lines 133-142: replace the document of the session
                 LET old_table_name == active_sessions[session_id].table_name
                     temp_file_path == TempFilePath(transaction_id, file)
                 IN
                 /\ uuids' = uuids + 1
                 /\ UNCHANGED active_sessions
                 /\ \/ \* QaChain(...) or cleanup_table raises
                       /\ Complete(req, "replace", Caught("cleanup_table failed"), NoQa)
                       /\ UNCHANGED <<tables, files, pending>>
                    \/ \* open(temp_file_path, "wb") raises
                       /\ tables' = CleanupTable(tables, old_table_name)
                       /\ Complete(req, "replace", Caught("open failed"), NoQa)
                       /\ UNCHANGED <<files, pending>>
                    \/ \* suspended at `await file.read()`, the file is open
                       /\ tables' = CleanupTable(tables, old_table_name)
                       /\ files' = files \cup {temp_file_path}
                       /\ pending' = pending \cup
                              {Suspended(transaction_id, req, session_id, temp_file_path, "replace", old_table_name)}
                       /\ UNCHANGED last
            ELSE \* lines 151-154, 181-202: the session as it is
                 /\ \E o \in AnswerPhase(session_id, query, active_sessions[session_id].temp_file_path,
                                         SessionTableName(active_sessions, session_id), FALSE) :
                        Complete(req, "existing", o.resp, o.qa)
                 /\ uuids' = uuids + 1
                 /\ UNCHANGED <<active_sessions, tables, files, pending>>
       ELSE IF file # None
       THEN \* lines 157-162: a new session, under an id of the server's making
            LET new_session_id == Uuid4(uuids + 2)
                temp_file_path == TempFilePath(transaction_id, file)
            IN
            /\ uuids' = uuids + 2
            /\ UNCHANGED <<active_sessions, tables>>
            /\ \/ \* open(temp_file_path, "wb") raises
                  /\ Complete(req, "new", Caught("open failed"), NoQa)
                  /\ UNCHANGED <<files, pending>>
               \/ \* suspended at `await file.read()`, the file is open
                  /\ files' = files \cup {temp_file_path}
                  /\ pending' = pending \cup
                         {Suspended(transaction_id, req, new_session_id, temp_file_path, "new", None)}
                  /\ UNCHANGED last
       ELSE \* lines 174-179
            /\ Complete(req, "unknown_session",
                        CaughtHTTPException(HTTPException(404,
                            "Session with ID " \o session_id \o " not found. It may have expired.")),
                        NoQa)
            /\ uuids' = uuids + 1
            /\ UNCHANGED <<active_sessions, tables, files, pending>>

\* The rest of a suspended pdf_chat request p: _process_file from the return
\* of file.read() (lines 70-92), then lines 144-148 or 164-172 and the answer
\* phase.  No await is left, so it is one step.
pdf_chat_resume(p) ==
    LET req == p.req IN
    /\ p \in pending
    /\ pending' = pending \ {p}
    /\ UNCHANGED <<uuids, clock, cleaned, files>>
    /\ \/ \* file.read() or temp_file.write() raises
          /\ Complete(req, p.branch, Caught("read failed"), NoQa)
          /\ UNCHANGED <<active_sessions, tables, s3>>
       \/ \* upload_file_to_s3 raises
          /\ Complete(req, p.branch, Caught("upload failed"), NoQa)
          /\ UNCHANGED <<active_sessions, tables, s3>>
       \/ \* QaChain(...) or create_table raises
          /\ s3' = s3 \cup {S3Upload(p.transaction_id, req.user_id, p.temp_file_path, req.file)}
          /\ Complete(req, p.branch, Caught("create_table failed"), NoQa)
          /\ UNCHANGED <<active_sessions, tables>>
       \/ \* the file is indexed into table_name
          /\ s3' = s3 \cup {S3Upload(p.transaction_id, req.user_id, p.temp_file_path, req.file)}
          /\ \E table_name \in TableNames :
                /\ tables' = tables \cup {table_name}
                /\ IF p.branch = "replace"
                   THEN IF p.session_id \in DOMAIN active_sessions
                        THEN /\ active_sessions' = UpdateSession(active_sessions, p.session_id,
                                                                 p.temp_file_path, table_name)
                             /\ \E o \in AnswerPhase(p.session_id, req.query, p.temp_file_path, table_name, FALSE) :
                                    Complete(req, p.branch, o.resp, o.qa)
                        ELSE \* active_sessions[session_id] raises KeyError
                             /\ Complete(req, p.branch, Caught(StrKeyError(p.session_id)), NoQa)
                             /\ UNCHANGED active_sessions
                   ELSE /\ active_sessions' = StoreSession(active_sessions, p.session_id,
                               NewSession(req.user_id, p.temp_file_path, table_name, clock))
                        /\ \E o \in AnswerPhase(p.session_id, req.query, p.temp_file_path, table_name, TRUE) :
                               Complete(req, p.branch, o.resp, o.qa)

Next ==
    \/ \E session_id \in SessionIdsSent(FirstUser) \ {None} : cleanup_session(session_id)
    \/ \E user_id \in Users, query \in Queries, file \in Filenames \cup {None} :
           \E session_id \in SessionIdsSent(user_id) : pdf_chat(user_id, query, session_id, file)
    \/ \E p \in pending : pdf_chat_resume(p)

Spec == Init /\ [][Next]_vars
----------------------------------------------------------------------------
(***************************************************************************)
(* The upload-and-delegate endpoints: api/nlp/chatbot/clean_endpoint.py,   *)
(* summary.py, chatbot.py and gateway.py.  Each saves its uploads, calls   *)
(* one external object (answer coordinator, chain, agent or gateway) and   *)
(* shapes the response.  The handlers share no state but the file system,  *)
(* where every request writes under names of its own (a uuid4 in each), so *)
(* the steps of two requests commute and a request is taken as one step.   *)
(* They are a specification of their own, SpecEndpoints, over the same     *)
(* variables: files, s3, uuids, clock and last.                            *)
(***************************************************************************)

\* Files a multi-file request carries at most.
MaxFiles == 2

\* UPLOAD_DIR of clean_endpoint.py
CLEAN_UPLOAD_DIR == "uploads"

\* The names of the files uploaded to these endpoints, one without a suffix.
UploadNames == Filenames \cup {"scan"}

\* The non-empty lists of uploads of a multi-file request.
FileLists == UNION {[1..n -> UploadNames] : n \in 1..MaxFiles}

\* Path(filename).suffix: from the last dot of the name on, "" without one
\* (a dot in first place does not count).
Suffix(filename) ==
    LET dots == {i \in 2..Len(filename) : SubSeq(filename, i, i) = "."} IN
    IF dots = {} THEN ""
    ELSE SubSeq(filename, CHOOSE i \in dots : \A j \in dots : j <= i, Len(filename))

\* save_uploaded_file: UPLOAD_DIR / f"{uuid.uuid4()}{file_extension}"
UniquePath(uuid, filename) == CLEAN_UPLOAD_DIR \o "/" \o uuid \o Suffix(filename)

\* lab_report_extraction: os.path.join(temp_dir, f"extract_{uuid.uuid4()}_{file.filename}")
ExtractPath(uuid, filename) == UPLOAD_DIR \o "/" \o "extract_" \o uuid \o "_" \o filename

\* Whether the string sub occurs in the string s.
Contains(s, sub) == \E i \in 1..(Len(s) - Len(sub) + 1) : SubSeq(s, i, i + Len(sub) - 1) = sub

\* A handler returns its body: HTTP 200.
Returned ==
    [status |-> 200, detail |-> None, session_id |-> None, answer |-> None,
     message |-> None, is_new_session |-> FALSE, table_name |-> None]

\* An exception that leaves the handler is answered by the framework's
\* server-error response, which carries nothing of the exception.
ServerError == HTTPException(500, "Internal Server Error")

\* gateway.py: HTTPException(status_code=500, detail=f"Gateway error: {str(e)}")
GatewayError(msg) == HTTPException(500, "Gateway error: " \o msg)

\* chatbot.py: detail=f"An error occurred while processing your request: {str(e)}"
ChatbotError(msg) == HTTPException(500, "An error occurred while processing your request: " \o msg)

\* A request to one of these endpoints.
EndpointRequest(module, op, filenames, user_id) ==
    [op |-> op, module |-> module, filenames |-> filenames, user_id |-> user_id]

\* The endpoints of clean_endpoint.py, by what they upload.
CleanOneFile ==
    {"generate_soap_notes", "transcribe_audio", "extract_prescription", "summarize_document",
     "extract_lab_report", "deep_audio_notes"}

CleanNoFile == {"medical_chat", "process_text", "get_service_stats"}

CleanEndpoints == CleanOneFile \cup CleanNoFile \cup {"pdf_chat", "summarize_multiple_documents"}

\* The uploads a request to the endpoint op may carry.
CleanFiles(op) ==
    IF op \in CleanOneFile THEN [1..1 -> UploadNames]
    ELSE IF op \in CleanNoFile THEN {<<>>}
    ELSE IF op = "pdf_chat" THEN {<<>>} \cup [1..1 -> UploadNames]
    ELSE FileLists

\* The route_* endpoints of gateway.py.
GatewayRoutes ==
    {"medical_chat_gateway", "pdf_chat_gateway", "lab_extract_gateway", "audio_transcription_gateway",
     "deep_audio_notes_gateway", "soap_notes_gateway", "process_text_gateway",
     "document_summary_gateway", "multi_document_summary_gateway"}

InitEndpoints ==
    /\ active_sessions = <<>>
    /\ tables = {}
    /\ files = {}
    /\ s3 = {}
    /\ uuids = 0
    /\ clock = 0
    /\ pending = {}
    /\ cleaned = {}
    /\ last = [n |-> 0, req |-> EndpointRequest("none", "none", <<>>, None), branch |-> "not_called",
               resp |-> Returned, qa |-> NoQa, raised |-> None, escaped |-> FALSE, saved |-> {},
               unremoved |-> {}]

\* The request req ends with response resp.  chain: whether the external
\* object was called and how the call ended; raised: str(e) of the exception
\* it, or the S3 upload, raised; escaped: an exception left the handler;
\* saved: the temp files the request had written in full when it ended;
\* unremoved: the files whose os.remove or unlink raised.
Finish(req, chain, resp, raised, escaped, saved, unremoved) ==
    last' = [n |-> last.n + 1, req |-> req, branch |-> chain, resp |-> resp, qa |-> NoQa,
             raised |-> raised, escaped |-> escaped, saved |-> saved, unremoved |-> unremoved]

\* A request arrives at an endpoint that touches neither sessions nor tables.
Arrives ==
    /\ clock < MaxRequests
    /\ clock' = clock + 1
    /\ UNCHANGED <<active_sessions, tables, pending, cleaned>>

\* Every handler of clean_endpoint.py: save_uploaded_file for each upload,
\* the answer coordinator, cleanup_file for each saved file, all inside
\* try/except Exception.  The other form fields go to the coordinator only.
clean_endpoint(op, filenames) ==
    LET n == Len(filenames)
        req == EndpointRequest("clean_endpoint", op, filenames, None)
        paths(k) == {UniquePath(Uuid4(uuids + i), filenames[i]) : i \in 1..k}
    IN
    /\ Arrives
    /\ UNCHANGED s3
    /\ \/ \* save_uploaded_file: open raises for upload k+1
          \E k \in 0..(n - 1) :
             /\ uuids' = uuids + k + 1
             /\ files' = files \cup paths(k)
             /\ Finish(req, "not_called", Caught("open failed"), None, FALSE, paths(k), {})
       \/ \* save_uploaded_file: read or write raises for upload k+1
          \E k \in 0..(n - 1) :
             /\ uuids' = uuids + k + 1
             /\ files' = files \cup paths(k + 1)
             /\ Finish(req, "not_called", Caught("read failed"), None, FALSE, paths(k), {})
       \/ \* the coordinator raises
          /\ uuids' = uuids + n
          /\ files' = files \cup paths(n)
          /\ Finish(req, "raised", Caught("coordinator failed"), "coordinator failed", FALSE, paths(n), {})
       \/ \* the coordinator returns; cleanup_file unlinks each file, and
          \* swallows the exception of an unlink that fails (kept)
          \E kept \in SUBSET paths(n) :
             /\ uuids' = uuids + n
             /\ files' = files \cup kept
             /\ Finish(req, "returned", Returned, None, FALSE, paths(n), kept)

\* The outcomes of a try body of summary.py before its finally clause runs:
\* the response so far, the files the request has opened for writing, those
\* of them it has written in full, the paths its finally clause goes through,
\* in order, and what it has put on S3.
Outcome(chain, resp, raised, written, saved, listed, uploads) ==
    [chain |-> chain, resp |-> resp, raised |-> raised, written |-> written, saved |-> saved,
     listed |-> listed, uploads |-> uploads]

\* The elements of the sequence q at the positions in I.
Elems(q, I) == {q[i] : i \in I \cap DOMAIN q}

\* The finally clauses of summary.py: os.remove of each listed path that
\* exists, in order.  Either all are removed and the response stands, or the
\* os.remove of the j-th raises: that exception leaves the handler in place
\* of the response, and the files from the j-th on stay.
Finally(req, o) ==
    LET m == Len(o.listed) IN
    /\ s3' = s3 \cup o.uploads
    /\ \/ /\ files' = files \cup (o.written \ Elems(o.listed, 1..m))
          /\ Finish(req, o.chain, o.resp, o.raised, FALSE, o.saved, {})
       \/ \E j \in 1..m :
             /\ o.listed[j] \in o.written \ Elems(o.listed, 1..(j - 1))
             /\ files' = files \cup (o.written \ Elems(o.listed, 1..(j - 1)))
             /\ Finish(req, o.chain, ServerError, o.raised, TRUE, o.saved, {o.listed[j]})

\* single_document_summary, summary.py 38-126
single_document_summary(filename, user_id) ==
    LET req == EndpointRequest("summary", "single_document_summary", <<filename>>, user_id)
        transaction_id == Uuid4(uuids + 1)
        temp_file_path == TempFilePath(transaction_id, filename)
        upload == S3Upload(transaction_id, user_id, temp_file_path, filename)
    IN
    /\ Arrives
    /\ uuids' = uuids + 2
    /\ \E o \in {Outcome("not_called", Caught("open failed"), None, {}, {}, <<temp_file_path>>, {}),
                 Outcome("not_called", Caught("read failed"), None, {temp_file_path}, {},
                         <<temp_file_path>>, {}),
                 Outcome("raised", Caught("upload failed"), "upload failed",
                         {temp_file_path}, {temp_file_path}, <<temp_file_path>>, {}),
                 Outcome("raised", Caught("get_answer failed"), "get_answer failed",
                         {temp_file_path}, {temp_file_path}, <<temp_file_path>>, {upload}),
                 Outcome("returned", Returned, None,
                         {temp_file_path}, {temp_file_path}, <<temp_file_path>>, {upload})} :
          Finally(req, o)

\* multi_document_summary, summary.py 137-227.  A path enters
\* temp_file_paths only after its file is written.
multi_document_summary(filenames, user_id) ==
    LET n == Len(filenames)
        req == EndpointRequest("summary", "multi_document_summary", filenames, user_id)
        transaction_id == Uuid4(uuids + 1)
        temp_file_paths == [i \in 1..n |-> TempFilePath(transaction_id, filenames[i])]
        listed(k) == SubSeq(temp_file_paths, 1, k)
        paths(k) == Elems(temp_file_paths, 1..k)
        uploads(k) == {S3Upload(transaction_id, user_id, temp_file_paths[i], filenames[i]) : i \in 1..k}
    IN
    /\ Arrives
    /\ uuids' = uuids + 1
    /\ \E o \in {Outcome("not_called", Caught("open failed"), None, paths(k), paths(k), listed(k), {}) :
                    k \in 0..(n - 1)}
              \cup {Outcome("not_called", Caught("read failed"), None, paths(k + 1), paths(k), listed(k), {}) :
                       k \in 0..(n - 1)}
              \cup {Outcome("raised", Caught("upload failed"), "upload failed",
                            paths(n), paths(n), listed(n), uploads(k)) : k \in 0..(n - 1)}
              \cup {Outcome("raised", Caught("get_multiple_answers failed"), "get_multiple_answers failed",
                            paths(n), paths(n), listed(n), uploads(n)),
                    Outcome("returned", Returned, None, paths(n), paths(n), listed(n), uploads(n))} :
          Finally(req, o)

\* lab_report_extraction, summary.py 235-264: no finally; os.remove only
\* after the extractor has returned, its exception swallowed.
lab_report_extraction(filename) ==
    LET req == EndpointRequest("summary", "lab_report_extraction", <<filename>>, None)
        temp_file_path == ExtractPath(Uuid4(uuids + 1), filename)
    IN
    /\ Arrives
    /\ uuids' = uuids + 1
    /\ UNCHANGED s3
    /\ \/ \* open raises
          /\ UNCHANGED files
          /\ Finish(req, "not_called", Caught("open failed"), None, FALSE, {}, {})
       \/ \* read or write raises
          /\ files' = files \cup {temp_file_path}
          /\ Finish(req, "not_called", Caught("read failed"), None, FALSE, {}, {})
       \/ \* GetPrescriptionChain() or get_answer raises
          /\ files' = files \cup {temp_file_path}
          /\ Finish(req, "raised", Caught("get_answer failed"), "get_answer failed", FALSE, {temp_file_path}, {})
       \/ \* the extractor returns, the file is removed
          /\ UNCHANGED files
          /\ Finish(req, "returned", Returned, None, FALSE, {temp_file_path}, {})
       \/ \* the extractor returns, os.remove raises and is logged
          /\ files' = files \cup {temp_file_path}
          /\ Finish(req, "returned", Returned, None, FALSE, {temp_file_path}, {temp_file_path})

\* healthcare_chat, chatbot.py 12-40
healthcare_chat ==
    LET req == EndpointRequest("chatbot", "healthcare_chat", <<>>, None) IN
    /\ Arrives
    /\ UNCHANGED <<files, s3, uuids>>
    /\ \/ Finish(req, "raised", ChatbotError("process_query failed"), "process_query failed", FALSE, {}, {})
       \/ Finish(req, "returned", Returned, None, FALSE, {}, {})

\* The nine endpoints of gateway.py that await gateway.route_*(...) inside
\* try/except Exception.
gateway_route(op) ==
    LET req == EndpointRequest("gateway", op, <<>>, None) IN
    /\ Arrives
    /\ UNCHANGED <<files, s3, uuids>>
    /\ \/ Finish(req, "raised", GatewayError("route failed"), "route failed", FALSE, {}, {})
       \/ Finish(req, "returned", Returned, None, FALSE, {}, {})

\* health_check, gateway.py 368-378: gateway.get_health_status() with no
\* try around it.
health_check ==
    LET req == EndpointRequest("gateway", "health_check", <<>>, None) IN
    /\ Arrives
    /\ UNCHANGED <<files, s3, uuids>>
    /\ \/ Finish(req, "raised", ServerError, "get_health_status failed", TRUE, {}, {})
       \/ Finish(req, "returned", Returned, None, FALSE, {}, {})

\* get_metrics, gateway.py 381-405: reads gateway.request_count, calls nothing.
get_metrics ==
    /\ Arrives
    /\ UNCHANGED <<files, s3, uuids>>
    /\ Finish(EndpointRequest("gateway", "get_metrics", <<>>, None), "not_called", Returned, None, FALSE, {}, {})

NextEndpoints ==
    \/ \E op \in CleanEndpoints : \E filenames \in CleanFiles(op) : clean_endpoint(op, filenames)
    \/ \E filename \in UploadNames, user_id \in {None, FirstUser} : single_document_summary(filename, user_id)
    \/ \E filenames \in FileLists, user_id \in {None, FirstUser} : multi_document_summary(filenames, user_id)
    \/ \E filename \in UploadNames : lab_report_extraction(filename)
    \/ healthcare_chat
    \/ \E op \in GatewayRoutes : gateway_route(op)
    \/ health_check
    \/ get_metrics

SpecEndpoints == InitEndpoints /\ [][NextEndpoints]_vars

----------------------------------------------------------------------------
\* Properties

\* A request completes in this step.
Completes == last'.n # last.n

\* A pdf_chat request without a file completes in this step (it ran as one step).
CompletesNoFile == Completes /\ last'.req.op = "pdf_chat" /\ last'.req.file = None

\* A cleanup_session request completes in this step.
CompletesCleanup == Completes /\ last'.req.op = "cleanup"

\* C1: a pdf_chat request with a file and no session_id that succeeds adds
\* exactly one key to active_sessions, a key that was not there; the entry
\* holds the request's user_id and the temp_file_path and table_name of the
\* file just indexed; every other entry is unchanged; the response has
\* is_new_session = TRUE and session_id equal to the new key.
C1_NewSession ==
    [][\A p \in pending \ pending' :
          (p.req.file # None /\ ~Truthy(p.req.session_id) /\ last'.resp.status = 200) =>
              /\ DOMAIN active_sessions' \ DOMAIN active_sessions = {last'.resp.session_id}
              /\ active_sessions'[last'.resp.session_id].user_id = p.req.user_id
              /\ active_sessions'[last'.resp.session_id].temp_file_path
                     = TempFilePath(p.transaction_id, p.req.file)
              /\ active_sessions'[last'.resp.session_id].temp_file_path \in files'
              /\ active_sessions'[last'.resp.session_id].table_name = last'.resp.table_name
              /\ tables' = tables \cup {last'.resp.table_name}
              /\ \A s \in DOMAIN active_sessions :
                     s \in DOMAIN active_sessions' /\ active_sessions'[s] = active_sessions[s]
              /\ last'.resp.is_new_session = TRUE
      ]_vars

\* C1 witness: a request with a file and no session_id has succeeded while
\* another session was already stored.
C1_Witness ==
    /\ last.req.op = "pdf_chat" /\ last.req.file # None /\ last.req.session_id = None
    /\ last.resp.status = 200 /\ last.resp.is_new_session
    /\ Cardinality(DOMAIN active_sessions) = 2

\* C2: a pdf_chat request with a session_id that is in active_sessions and no
\* file leaves active_sessions unchanged, saves, uploads and indexes no file
\* and drops no table (also when the answer chain raises); its response has
\* is_new_session = FALSE, the session_id that was sent and the table_name
\* stored for that session.
C2_ExistingSession ==
    [][(CompletesNoFile /\ last'.req.session_id \in DOMAIN active_sessions) =>
          /\ UNCHANGED <<active_sessions, files, s3, tables, pending>>
          /\ last'.resp.status = 200 =>
                 /\ last'.resp.is_new_session = FALSE
                 /\ last'.resp.session_id = last'.req.session_id
                 /\ last'.resp.table_name = active_sessions[last'.req.session_id].table_name
      ]_vars

\* C2 witness: a follow-up question to an existing session has been answered.
C2_Witness ==
    /\ last.req.op = "pdf_chat" /\ last.req.file = None
    /\ last.branch = "existing" /\ last.resp.status = 200 /\ last.qa.called
    /\ last.req.session_id \in DOMAIN active_sessions

\* C3: a pdf_chat request with a file and a session_id that is in
\* active_sessions drops the session's old table before it indexes anything
\* (first conjunct: the step up to the await); when it succeeds (second
\* conjunct: the step after it) the set of session ids is unchanged, the
\* session's table_name and temp_file_path are those of the file just
\* indexed, its user_id and created_at and every other entry are unchanged,
\* and the response has is_new_session = FALSE and the same session_id.
C3_ReplaceDocument ==
    [][/\ \A p \in pending' \ pending :
             p.branch = "replace" =>
                 /\ p.req.file # None /\ p.session_id = p.req.session_id
                 /\ p.session_id \in DOMAIN active_sessions
                 /\ p.old_table_name = active_sessions[p.session_id].table_name
                 /\ tables' = tables \ {p.old_table_name}
                 /\ UNCHANGED <<active_sessions, s3>>
       /\ \A p \in pending \ pending' :
             (p.branch = "replace" /\ last'.resp.status = 200) =>
                 /\ DOMAIN active_sessions' = DOMAIN active_sessions
                 /\ active_sessions'[p.session_id].table_name = last'.resp.table_name
                 /\ tables' = tables \cup {last'.resp.table_name}
                 /\ active_sessions'[p.session_id].temp_file_path
                        = TempFilePath(p.transaction_id, p.req.file)
                 /\ active_sessions'[p.session_id].user_id = active_sessions[p.session_id].user_id
                 /\ active_sessions'[p.session_id].created_at = active_sessions[p.session_id].created_at
                 /\ \A s \in DOMAIN active_sessions \ {p.session_id} :
                        active_sessions'[s] = active_sessions[s]
                 /\ last'.resp.is_new_session = FALSE
                 /\ last'.resp.session_id = p.req.session_id
      ]_vars

\* C3 witness: the second user has replaced the document of a session the
\* first user opened, and the session now holds another table and file.
C3_Witness ==
    /\ last.branch = "replace" /\ last.resp.status = 200
    /\ last.req.user_id = SecondUser
    /\ active_sessions[last.req.session_id].user_id = FirstUser
    /\ active_sessions[last.req.session_id].table_name = "t2"
    /\ "t1" \notin tables

\* C4: a pdf_chat request with neither a file nor a session_id is rejected
\* with status 400 and detail "Either file or session_id must be provided",
\* and active_sessions is unchanged.
C4_Original ==
    [][(CompletesNoFile /\ ~Truthy(last'.req.session_id)) =>
          /\ last'.resp.status = 400
          /\ last'.resp.detail = "Either file or session_id must be provided"
          /\ UNCHANGED active_sessions
      ]_vars

\* C5: a pdf_chat request with a session_id that is not in active_sessions
\* and no file is rejected with status 404, and active_sessions is unchanged.
C5_Original ==
    [][(CompletesNoFile /\ Truthy(last'.req.session_id)
            /\ last'.req.session_id \notin DOMAIN active_sessions) =>
          /\ last'.resp.status = 404
          /\ UNCHANGED active_sessions
      ]_vars

\* C6: after a pdf_chat request that sent a document, a query, a session_id
\* and a user_id has succeeded, the follow-up request with the same
\* session_id and user_id, a query and no file is taken as a request to that
\* session and, unless the answer chain raises, answered from the table the
\* first request indexed.
C6_Original ==
    [][(/\ last.req.op = "pdf_chat" /\ last.req.file # None /\ Truthy(last.req.query)
        /\ Truthy(last.req.session_id) /\ last.resp.status = 200
        /\ CompletesNoFile /\ Truthy(last'.req.query)
        /\ last'.req.session_id = last.req.session_id
        /\ last'.req.user_id = last.req.user_id) =>
          /\ last'.branch = "existing"
          /\ last'.resp.status = 200 =>
                 /\ last'.qa.called
                 /\ last'.qa.table_name = last.resp.table_name
      ]_vars

\* C7: a successful pdf_chat response carries a session_id; without a query
\* (None or "") the answer chain is not called, answer is None and message
\* is the fixed one; with a query, answer and message are what the answer
\* chain returned for that query, run against the table_name the session
\* holds.
C7_Response ==
    (last.req.op = "pdf_chat" /\ last.resp.status = 200) =>
        /\ Truthy(last.resp.session_id)
        /\ ~Truthy(last.req.query) =>
               /\ ~last.qa.called
               /\ last.resp.answer = None
               /\ last.resp.message = "Document processed and indexed. Send a query to get answers."
        /\ Truthy(last.req.query) =>
               /\ last.qa.called
               /\ last.qa.query = last.req.query
               /\ last.resp.answer = Get(last.qa.ret, "answer")
               /\ last.resp.message = Get(last.qa.ret, "message")
               /\ last.resp.session_id \in DOMAIN active_sessions
               /\ last.qa.table_name = active_sessions[last.resp.session_id].table_name
               /\ last.resp.table_name = last.qa.table_name

\* C7 witness: a request with an empty query has succeeded without a call of
\* the answer chain.
C7_Witness ==
    /\ last.req.op = "pdf_chat" /\ last.resp.status = 200
    /\ last.req.query = "" /\ ~last.qa.called

\* C8: cleanup_session for a session_id in active_sessions, when no step
\* fails, drops the session's table, removes its temp file, removes the
\* session, leaves every other entry unchanged and returns "Session cleaned
\* up successfully".
C8_Cleanup ==
    [][(CompletesCleanup /\ last'.req.session_id \in DOMAIN active_sessions
            /\ last'.resp.status = 200) =>
          LET session == active_sessions[last'.req.session_id] IN
          /\ tables' = tables \ {session.table_name}
          /\ files' = files \ {session.temp_file_path}
          /\ DOMAIN active_sessions' = DOMAIN active_sessions \ {last'.req.session_id}
          /\ \A s \in DOMAIN active_sessions' : active_sessions'[s] = active_sessions[s]
          /\ last'.resp.message = "Session cleaned up successfully"
      ]_vars

\* C8 witness: a session has been cleaned up while another one stays.
C8_Witness ==
    /\ last.req.op = "cleanup" /\ last.resp.message = "Session cleaned up successfully"
    /\ last.req.session_id \in cleaned
    /\ DOMAIN active_sessions # {}

\* C9: cleanup_session for a session_id that is not in active_sessions
\* returns "Session not found" as a normal response and leaves
\* active_sessions, the tables and the temp files unchanged.
C9_CleanupNotFound ==
    [][(CompletesCleanup /\ last'.req.session_id \notin DOMAIN active_sessions) =>
          /\ last'.resp.status = 200
          /\ last'.resp.message = "Session not found"
          /\ UNCHANGED <<active_sessions, tables, files>>
      ]_vars

\* C9 witness: cleanup of an unknown id while sessions, tables and files exist.
C9_Witness ==
    /\ last.req.op = "cleanup" /\ last.resp.message = "Session not found"
    /\ last.req.session_id = ClientSessionId
    /\ DOMAIN active_sessions # {} /\ tables # {} /\ files # {}

\* C10: once cleanup_session has succeeded for a session_id, the id is never
\* in active_sessions again; a later pdf_chat with it and no file is rejected
\* as an unknown session, and a later cleanup_session for it returns "Session
\* not found" and drops no table and removes no file.
C10_CleanedIsGone ==
    [][/\ cleaned' \cap DOMAIN active_sessions' = {}
       /\ (CompletesNoFile /\ last'.req.session_id \in cleaned) =>
              /\ last'.branch = "unknown_session"
              /\ last'.resp.status # 200
              /\ UNCHANGED <<active_sessions, tables, files>>
       /\ (CompletesCleanup /\ last'.req.session_id \in cleaned) =>
              /\ last'.resp.message = "Session not found"
              /\ UNCHANGED <<active_sessions, tables, files>>
      ]_vars

\* C10 witness: a second cleanup of a cleaned-up session has been answered.
C10_Witness ==
    /\ last.req.op = "cleanup" /\ last.req.session_id \in cleaned
    /\ last.resp.message = "Session not found"

\* C10 witness, the other case: a question to a cleaned-up session has been rejected.
C10_WitnessChat ==
    /\ last.req.op = "pdf_chat" /\ last.req.session_id \in cleaned
    /\ last.branch = "unknown_session"

\* C11: a session id that is in active_sessions leaves it only in the step
\* in which a cleanup_session request for that very id succeeds; no pdf_chat
\* step and no cleanup of another session removes it.
C11_NoEviction ==
    [][\A s \in DOMAIN active_sessions \ DOMAIN active_sessions' :
          /\ CompletesCleanup
          /\ last'.req.session_id = s
          /\ last'.resp.message = "Session cleaned up successfully"
      ]_vars

\* C11 witness: a second session has been opened, a replacement of the first
\* one's document has failed, and both sessions are still stored.
C11_Witness ==
    /\ last.branch = "replace" /\ last.resp.status = 500
    /\ last.req.session_id \in DOMAIN active_sessions
    /\ Cardinality(DOMAIN active_sessions) = 2

\* C14: whenever no request is in flight, every entry of active_sessions has
\* a table_name that is a table of the store (created and not dropped), also
\* after requests in which the upload, the indexing, the drop or the removal
\* raised.
C14_Original ==
    pending = {} => \A s \in DOMAIN active_sessions : active_sessions[s].table_name \in tables

\* C15: when a replace request for session S resumes from `await file.read()`
\* after a cleanup_session for S has run to completion, it does not fail on
\* the missing entry of S, and every table it creates is referenced by an
\* active session.
C15_Original ==
    [][\A p \in pending \ pending' :
          (p.branch = "replace" /\ p.session_id \in cleaned) =>
              /\ last'.resp.detail # StrKeyError(p.session_id)
              /\ \A t \in tables' \ tables :
                     \E s \in DOMAIN active_sessions' : active_sessions'[s].table_name = t
      ]_vars

\* C12: a request to a summary endpoint, to healthcare_chat, to a gateway
\* endpoint or to a clean endpoint (the specification SpecEndpoints), in
\* which the external chain, the S3 upload or the gateway call raised and no
\* removal of a temp file raised after it, ends with status 500 and a detail
\* that contains the exception's message, and the exception has not left the
\* handler unmapped.
C12_Original ==
    (last.raised # None /\ last.unremoved = {}) =>
        /\ last.resp.status = 500
        /\ Contains(last.resp.detail, last.raised)
        /\ ~last.escaped

\* C13: when a request to a clean_endpoint handler has completed, none of
\* the files it saved with save_uploaded_file exists (but those whose unlink
\* raised), whether the coordinator returned or raised or the saving of a
\* later file failed.
C13_Original ==
    last.req.module = "clean_endpoint" => (last.saved \ last.unremoved) \cap files = {}

\* C16: when a lab_report_extraction request whose extractor was called has
\* completed, the file it wrote under /tmp/pdf_uploads does not exist (unless
\* its os.remove raised), whether the extractor returned or raised; and a
\* request whose extractor returned has status 200 also when os.remove raised.
C16_Original ==
    (last.req.op = "lab_report_extraction" /\ last.branch \in {"returned", "raised"}) =>
        /\ (last.saved \ last.unremoved) \cap files = {}
        /\ last.branch = "returned" => last.resp.status = 200

====
